---- MODULE Spec2Model ----
(***************************************************************************)
(* A model of src/playwright/pyplaywright.py: build_font_css and the      *)
(* replay engine run_actions_on_html.  One run of run_actions_on_html is  *)
(* a sequence of Playwright calls; every call is one step of the model    *)
(* and either returns or raises.  An exception that no handler of the     *)
(* function catches leaves the `with sync_playwright()` block and ends    *)
(* the run.                                                                *)
(***************************************************************************)
EXTENDS Integers, Sequences, FiniteSets, TLC

VARIABLES
    FONT_CSS,         \* module global, line 57: "" or the @font-face CSS
    FONT_FACE_COUNT,  \* module global, line 57: 0 or 1
    actions,          \* the `actions` argument, a sequence of dicts
    pc,               \* position of the run inside run_actions_on_html
    browser,          \* local `browser`: None, or the engine launched
    engine_used,      \* local `engine_used`
    launch_errors,    \* local `launch_errors`: the engines whose launch raised
    context,          \* the browser context: None, "open", "closed"
    browserClosed,    \* browser.close() has been executed
    playwright,       \* the sync_playwright() block: "running", "stopped"
    i,                \* loop variable of `for i, action in enumerate(actions)`
    trace,            \* the lines printed and the Playwright calls made, in order
    value,            \* the page: value of each input element
    scroll,           \* the page: scroll offset of the viewport and of each element
    shots,            \* the screenshots captured, in order
    error             \* the exception that left run_actions_on_html and the
                      \* step that raised it, or NoError

vars == <<FONT_CSS, FONT_FACE_COUNT, actions, pc, browser, engine_used,
          launch_errors, context, browserClosed, playwright, i, trace,
          value, scroll, shots, error>>

None == "None"

-----------------------------------------------------------------------------
(* Bounds of the model *)

\* longest action list made of the core records
MaxActions == 3

-----------------------------------------------------------------------------
(* The document under test *)

\* selectors that resolve in the document; "#missing" does not
Elements == {"#btn", "#q", "#main", "window"}

\* the input elements of the document, and what they hold after load
Inputs == {"#q"}

InitialValue == [s \in Inputs |-> <<"a">>]

\* nothing is scrolled after load
InitialScroll ==
    [viewport |-> <<0, 0>>, element |-> [s \in Elements |-> <<0, 0>>]]

Resolves(selector) == selector \in Elements

-----------------------------------------------------------------------------
(* dict access *)

Has(action, key) == key \in DOMAIN action

\* dict.get(key, default)
Get(action, key, default) == IF Has(action, key) THEN action[key] ELSE default

-----------------------------------------------------------------------------
(* The action records the lists are made of *)

Text == <<"h", "i">>

CorePool ==
    { [action |-> "click", selector |-> "#btn"],
      [action |-> "wait", ms |-> 100],
      [action |-> "type", selector |-> "#q", text |-> Text, clear |-> FALSE],
      [action |-> "foo"] }

ActionPool ==
    CorePool \cup
    { [action |-> "click", selector |-> "#missing"],
      [action |-> "click"],
      [action |-> "type", selector |-> "#q", text |-> Text, clear |-> TRUE],
      [action |-> "type", selector |-> "#q", text |-> Text],
      [action |-> "scroll", target |-> "window", x |-> 0, y |-> 800],
      [action |-> "scroll", target |-> "#main", x |-> 0, y |-> 800],
      [action |-> "screenshot", path |-> <<"a.png">>, full_page |-> FALSE],
      [action |-> "type", selector |-> "#q", clear |-> TRUE],
      [action |-> "type", text |-> Text],
      [action |-> "wait"],
      [action |-> "scroll", target |-> "#main", y |-> 800],
      [action |-> "scroll", target |-> "window", x |-> 5],
      [action |-> "screenshot", path |-> <<"a.png">>],
      [action |-> "scroll", target |-> "#missing", x |-> 0, y |-> 800],
      [action |-> "scroll", x |-> 0, y |-> 800],
      [action |-> "screenshot"],
      [selector |-> "#btn"] }

SeqsUpTo(S, n) == UNION { [1..k -> S] : k \in 0..n }

\* every list of at most two records, and the longer lists of core records
ActionLists ==
    { <<>> } \cup { <<a>> : a \in ActionPool }
             \cup { <<a, b>> : a \in ActionPool, b \in ActionPool }
             \cup SeqsUpTo(CorePool, MaxActions)

-----------------------------------------------------------------------------
(* build_font_css, lines 23-54 *)

FontCss == "@font-face"

Warn(m) == [tag |-> "warn", msg |-> m]
Info(m) == [tag |-> "info", msg |-> m]

\* the except clause of lines 35-37 printing the warning and falling
\* through to line 54 with an empty data URI: no CSS, but a count of 1
build_font_cssCountsUnreadable(exists, readable) ==
    IF ~exists THEN [css |-> "", count |-> 0, printed |-> << >>]
    ELSE IF ~readable
         THEN [css |-> "", count |-> 1,
               printed |-> << Warn("failed to load font") >>]
         ELSE [css |-> FontCss, count |-> 1, printed |-> << >>]

\* exists: font_path.exists(); readable: read_bytes() raises no OSError.
\* `printed` is what the function prints.
build_font_css(exists, readable) ==
    IF ~exists THEN [css |-> "", count |-> 0, printed |-> << >>]
    ELSE IF ~readable
         THEN [css |-> "", count |-> 0,
               printed |-> << Warn("failed to load font") >>]
         ELSE [css |-> FontCss, count |-> 1, printed |-> << >>]

-----------------------------------------------------------------------------
(* The entries of the trace: printed lines and Playwright calls *)

\* line 177: print(f"[{i}] do: {kind} -> {action}")
DoLine(idx, kind, action) ==
    [tag |-> "do", i |-> idx, kind |-> kind, action |-> action]

\* line 212: print(f"unknown action: {kind}")
UnknownLine(kind) == [tag |-> "unknown", kind |-> kind]

\* a call that returned, a call that raised
Returned(c) == [tag |-> "call", call |-> c, raised |-> FALSE]
Raised(c)   == [tag |-> "call", call |-> c, raised |-> TRUE]

Op(name) == [op |-> name]

NoError == << >>

-----------------------------------------------------------------------------
(* An exception no handler catches leaves the with block of line 75 *)

Raise(exc) ==
    /\ pc' = "raised"
    /\ error' = <<exc, pc>>
    /\ playwright' = "stopped"

\* the test written `FONT_CSS is not None`, true of the empty string
HasFontCssNotNone == TRUE

\* `if FONT_CSS:` of lines 127, 144 and 151
HasFontCss == FONT_CSS # ""

-----------------------------------------------------------------------------
Init ==
    /\ \E exists \in BOOLEAN, readable \in BOOLEAN :
          LET r == build_font_css(exists, readable)
          IN /\ FONT_CSS = r.css
             /\ FONT_FACE_COUNT = r.count
             /\ trace = r.printed
    /\ actions \in ActionLists
    /\ pc = "start"
    /\ browser = None
    /\ engine_used = None
    /\ launch_errors = << >>
    /\ context = None
    /\ browserClosed = FALSE
    /\ playwright = "running"
    /\ i = 0
    /\ value = InitialValue
    /\ scroll = InitialScroll
    /\ shots = << >>
    /\ error = NoError

\* lines 68-75
Start ==
    /\ pc = "start"
    /\ trace' = IF FONT_FACE_COUNT = 0
                THEN Append(trace, Warn("font not found"))
                ELSE trace
    /\ pc' = "launch_chromium"
    /\ UNCHANGED <<FONT_CSS, FONT_FACE_COUNT, actions, browser, engine_used,
                   launch_errors, context, browserClosed, playwright, i,
                   value, scroll, shots, error>>

\* the launch loop without its `break`: firefox is launched after
\* chromium whatever the outcome of the first launch
LaunchChromiumNoBreak ==
    /\ pc = "launch_chromium"
    /\ \/ /\ trace' = Append(trace, Returned(Op("chromium.launch")))
          /\ browser' = "chromium"
          /\ engine_used' = "chromium"
          /\ UNCHANGED launch_errors
       \/ /\ trace' = Append(trace, Raised(Op("chromium.launch")))
          /\ launch_errors' = Append(launch_errors, "chromium")
          /\ UNCHANGED <<browser, engine_used>>
    /\ pc' = "launch_firefox"
    /\ UNCHANGED <<FONT_CSS, FONT_FACE_COUNT, actions, context, browserClosed,
                   playwright, i, value, scroll, shots, error>>

\* lines 81-99, first turn of the loop: p.chromium.launch
LaunchChromium ==
    /\ pc = "launch_chromium"
    /\ \/ /\ trace' = Append(trace, Returned(Op("chromium.launch")))
          /\ browser' = "chromium"
          /\ engine_used' = "chromium"
          /\ pc' = "new_context"
          /\ UNCHANGED launch_errors
       \/ /\ trace' = Append(trace, Raised(Op("chromium.launch")))
          /\ launch_errors' = Append(launch_errors, "chromium")
          /\ pc' = "launch_firefox"
          /\ UNCHANGED <<browser, engine_used>>
    /\ UNCHANGED <<FONT_CSS, FONT_FACE_COUNT, actions, context, browserClosed,
                   playwright, i, value, scroll, shots, error>>

\* lines 81-102, second turn of the loop: p.firefox.launch, then
\* `if browser is None: raise RuntimeError`
LaunchFirefox ==
    /\ pc = "launch_firefox"
    /\ \/ /\ trace' = Append(trace, Returned(Op("firefox.launch")))
          /\ browser' = "firefox"
          /\ engine_used' = "firefox"
          /\ pc' = "new_context"
          /\ UNCHANGED <<launch_errors, error, playwright>>
       \/ /\ trace' = Append(trace, Raised(Op("firefox.launch")))
          /\ launch_errors' = Append(launch_errors, "firefox")
          /\ Raise("RuntimeError")
          /\ UNCHANGED <<browser, engine_used>>
    /\ UNCHANGED <<FONT_CSS, FONT_FACE_COUNT, actions, context, browserClosed,
                   i, value, scroll, shots>>

\* lines 104-124: browser.new_context(...)
NewContext ==
    /\ pc = "new_context"
    /\ \/ /\ trace' = Append(trace, Returned(Op("new_context")))
          /\ context' = "open"
          /\ pc' = "add_init_script"
          /\ UNCHANGED <<error, playwright>>
       \/ /\ trace' = Append(trace, Raised(Op("new_context")))
          /\ Raise("Error")
          /\ UNCHANGED context
    /\ UNCHANGED <<FONT_CSS, FONT_FACE_COUNT, actions, browser, engine_used,
                   launch_errors, browserClosed, i, value, scroll, shots>>

\* what the run does with an exception of context.add_init_script: no
\* handler encloses lines 127-137
EarlyInjectionFailure(exc) == Raise(exc)

\* lines 126-137: the early injection
AddInitScript ==
    /\ pc = "add_init_script"
    /\ \/ /\ ~HasFontCss
          /\ pc' = "new_page"
          /\ UNCHANGED <<trace, error, playwright>>
       \/ /\ HasFontCss
          /\ trace' = trace \o << Info("injecting custom font css"),
                                  Returned(Op("add_init_script")) >>
          /\ pc' = "new_page"
          /\ UNCHANGED <<error, playwright>>
       \/ /\ HasFontCss
          /\ trace' = trace \o << Info("injecting custom font css"),
                                  Raised(Op("add_init_script")) >>
          /\ EarlyInjectionFailure("Error")
    /\ UNCHANGED <<FONT_CSS, FONT_FACE_COUNT, actions, browser, engine_used,
                   launch_errors, context, browserClosed, i, value, scroll, shots>>

\* line 139: context.new_page()
NewPage ==
    /\ pc = "new_page"
    /\ \/ /\ trace' = Append(trace, Returned(Op("new_page")))
          /\ pc' = "goto"
          /\ UNCHANGED <<error, playwright>>
       \/ /\ trace' = Append(trace, Raised(Op("new_page")))
          /\ Raise("Error")
    /\ UNCHANGED <<FONT_CSS, FONT_FACE_COUNT, actions, browser, engine_used,
                   launch_errors, context, browserClosed, i, value, scroll, shots>>

\* navigation wrapped in a try/except that goes on with the run
NavigationFailureIgnored(exc) ==
    /\ pc' = IF pc = "goto" THEN "wait_for_load_state" ELSE "add_style_tag"
    /\ UNCHANGED <<error, playwright>>

\* navigation in a retry loop: after an exception, page.goto is called again
NavigationFailureRetry(exc) ==
    /\ pc' = "goto"
    /\ UNCHANGED <<error, playwright>>

\* what the run does with an exception of page.goto or of
\* page.wait_for_load_state: no handler encloses lines 140-141
NavigationFailure(exc) == Raise(exc)

\* line 140: page.goto(url)
Goto ==
    /\ pc = "goto"
    /\ \/ /\ trace' = Append(trace, Returned(Op("goto")))
          /\ pc' = "wait_for_load_state"
          /\ UNCHANGED <<error, playwright>>
       \/ /\ trace' = Append(trace, Raised(Op("goto")))
          /\ NavigationFailure("Error")
    /\ UNCHANGED <<FONT_CSS, FONT_FACE_COUNT, actions, browser, engine_used,
                   launch_errors, context, browserClosed, i, value, scroll, shots>>

\* line 141: page.wait_for_load_state("networkidle")
WaitForLoadState ==
    /\ pc = "wait_for_load_state"
    /\ \/ /\ trace' = Append(trace, Returned(Op("wait_for_load_state")))
          /\ pc' = "add_style_tag"
          /\ UNCHANGED <<error, playwright>>
       \/ /\ trace' = Append(trace, Raised(Op("wait_for_load_state")))
          /\ NavigationFailure("TimeoutError")
    /\ UNCHANGED <<FONT_CSS, FONT_FACE_COUNT, actions, browser, engine_used,
                   launch_errors, context, browserClosed, i, value, scroll, shots>>

\* page.add_style_tag outside of any try/except
LateInjectionFailureRaises(exc) ==
    /\ trace' = Append(trace, Raised(Op("add_style_tag")))
    /\ Raise(exc)

\* lines 147-148: `except Exception as exc:` prints a warning, and the run
\* goes on with the readiness wait
LateInjectionFailure(exc) ==
    /\ trace' = trace \o << Raised(Op("add_style_tag")),
                            Warn("page-level font css injection failed") >>
    /\ pc' = "wait_fonts_loaded"
    /\ UNCHANGED <<error, playwright>>

\* the late injection left out: after the load-idle wait the run goes
\* straight to the readiness block
AddStyleTagSkipped ==
    /\ pc = "add_style_tag"
    /\ pc' = "wait_fonts_loaded"
    /\ UNCHANGED <<FONT_CSS, FONT_FACE_COUNT, actions, browser, engine_used,
                   launch_errors, context, browserClosed, playwright, i,
                   trace, value, scroll, shots, error>>

\* lines 143-148: the late injection, in a try/except that prints a warning
AddStyleTag ==
    /\ pc = "add_style_tag"
    /\ \/ /\ ~HasFontCss
          /\ pc' = "wait_fonts_loaded"
          /\ UNCHANGED <<trace, error, playwright>>
       \/ /\ HasFontCss
          /\ trace' = Append(trace, Returned(Op("add_style_tag")))
          /\ pc' = "wait_fonts_loaded"
          /\ UNCHANGED <<error, playwright>>
       \/ /\ HasFontCss
          /\ LateInjectionFailure("Error")
    /\ UNCHANGED <<FONT_CSS, FONT_FACE_COUNT, actions, browser, engine_used,
                   launch_errors, context, browserClosed, i, value, scroll,
                   shots>>

\* the fallback wait made whether or not the first wait raised
AfterFontsLoadedAlwaysFallback(raised) == "wait_font_check"

\* lines 154-160: the fallback wait stands in the except clause of the
\* first wait; without an exception the run goes on at line 167
AfterFontsLoaded(raised) ==
    IF raised THEN "wait_font_check" ELSE "evaluate_font_check"

\* lines 150-159: the wait for document.fonts.status === 'loaded'; the
\* whole block of lines 151-173 is skipped when FONT_CSS is empty
WaitFontsLoaded ==
    /\ pc = "wait_fonts_loaded"
    /\ \/ /\ ~HasFontCss
          /\ pc' = "replay"
          /\ UNCHANGED trace
       \/ /\ HasFontCss
          /\ trace' = Append(trace, Returned(Op("wait_for_function_status")))
          /\ pc' = AfterFontsLoaded(FALSE)
       \/ /\ HasFontCss
          /\ trace' = Append(trace, Raised(Op("wait_for_function_status")))
          /\ pc' = AfterFontsLoaded(TRUE)
    /\ UNCHANGED <<FONT_CSS, FONT_FACE_COUNT, actions, browser, engine_used,
                   launch_errors, context, browserClosed, playwright, i,
                   value, scroll, shots, error>>

\* the diagnostic evaluation placed inside the try of the readiness wait:
\* it is skipped when both waits raised
AfterFallbackSkipsCheck(raised) ==
    IF raised THEN "replay" ELSE "evaluate_font_check"

\* the readiness waits in a loop left only when one of them succeeds
AfterFallbackRetry(raised) ==
    IF raised THEN "wait_fonts_loaded" ELSE "evaluate_font_check"

\* lines 160-167: after the fallback wait, raised or not, the run goes on
\* with the diagnostic evaluation of line 167
AfterFallback(raised) == "evaluate_font_check"

\* lines 160-166: the fallback wait for document.fonts.check(...)
WaitFontCheck ==
    /\ pc = "wait_font_check"
    /\ \/ /\ trace' = Append(trace, Returned(Op("wait_for_function_check")))
          /\ pc' = AfterFallback(FALSE)
       \/ /\ trace' = trace \o << Raised(Op("wait_for_function_check")),
                                  Warn("font readiness wait failed") >>
          /\ pc' = AfterFallback(TRUE)
    /\ UNCHANGED <<FONT_CSS, FONT_FACE_COUNT, actions, browser, engine_used,
                   launch_errors, context, browserClosed, playwright, i, value, scroll, shots,
                   error>>

\* lines 167-173: the diagnostic page.evaluate of document.fonts.check
EvaluateFontCheck ==
    /\ pc = "evaluate_font_check"
    /\ \/ trace' = trace \o << Returned(Op("evaluate_font_check")),
                               Info("font check") >>
       \/ trace' = trace \o << Raised(Op("evaluate_font_check")),
                               Warn("font check evaluation failed") >>
    /\ pc' = "replay"
    /\ UNCHANGED <<FONT_CSS, FONT_FACE_COUNT, actions, browser, engine_used,
                   launch_errors, context, browserClosed, playwright, i, value, scroll, shots,
                   error>>

-----------------------------------------------------------------------------
(* The replay loop, lines 175-212 *)

\* the kinds the if/elif chain of lines 178-211 names; the rest take `else`
KnownKinds == {"click", "scroll", "wait", "type", "screenshot"}

\* line 176: kind = action.get("action")
Kind(action) == Get(action, "action", None)

\* the fields a branch reads with action[...], which raises KeyError when
\* the key is absent (lines 179, 201, 202); every other field is read
\* with action.get
RequiredFields(kind) ==
    CASE kind = "click" -> {"selector"}
      [] kind = "type"  -> {"selector", "text"}
      [] OTHER          -> {}

\* the kind read with action["action"]: a record without the key raises
\* KeyError like a record without a required field
MissingRequiredOrKind(action, kind) ==
    \/ ~Has(action, "action")
    \/ \E key \in RequiredFields(kind) : ~Has(action, key)

MissingRequired(action, kind) ==
    \E key \in RequiredFields(kind) : ~Has(action, key)

Digit == <<"0", "1", "2", "3", "4", "5", "6", "7", "8", "9">>

\* line 208: f"shot_{i:03}.png", for i < 1000
ShotName(idx) ==
    << "shot_", Digit[((idx \div 100) % 10) + 1], Digit[((idx \div 10) % 10) + 1],
       Digit[(idx % 10) + 1], ".png" >>

\* action.get("clear") without its default: an absent clear is None, false
ClearFirstDefaultFalse(action) == Get(action, "clear", FALSE) = TRUE

\* line 204: `if clear:` on the value of action.get("clear", True)
ClearFirst(action) == Get(action, "clear", TRUE) = TRUE

\* page.fill(selector, "") placed after page.type
TypeCallsFillAfter(action) ==
    << [op |-> "type", selector |-> action["selector"], text |-> action["text"]] >>
    \o (IF ClearFirst(action)
        THEN << [op |-> "fill", selector |-> action["selector"], value |-> << >>] >>
        ELSE << >>)

\* lines 200-206, the page calls of a type action: page.fill(selector, "")
\* when clear is true, then page.type(selector, text)
TypeCalls(action) ==
    (IF ClearFirst(action)
     THEN << [op |-> "fill", selector |-> action["selector"], value |-> << >>] >>
     ELSE << >>)
    \o << [op |-> "type", selector |-> action["selector"], text |-> action["text"]] >>

\* the target always handed to page.eval_on_selector
ScrollCallsAlwaysSelector(action) ==
    << [op |-> "eval_on_selector", selector |-> Get(action, "target", "window"),
        x |-> Get(action, "x", 0), y |-> Get(action, "y", 0)] >>

\* action.get("target", "body"): the page body as the default target
ScrollCallsDefaultBody(action) ==
    LET target == Get(action, "target", "body")
        x == Get(action, "x", 0)
        y == Get(action, "y", 0)
    IN IF target = "window"
       THEN << [op |-> "evaluate_scrollBy", x |-> x, y |-> y] >>
       ELSE << [op |-> "eval_on_selector", selector |-> target, x |-> x, y |-> y] >>

\* lines 181-196, the page call of a scroll action
ScrollCalls(action) ==
    LET target == Get(action, "target", "window")
        x == Get(action, "x", 0)
        y == Get(action, "y", 0)
    IN IF target = "window"
       THEN << [op |-> "evaluate_scrollBy", x |-> x, y |-> y] >>
       ELSE << [op |-> "eval_on_selector", selector |-> target, x |-> x, y |-> y] >>

\* full_page never handed on: every capture is of the viewport only
ScreenshotCallsViewportOnly(action, idx) ==
    << [op |-> "screenshot", path |-> Get(action, "path", ShotName(idx)),
        full_page |-> FALSE] >>

\* the default path written without the index: "shot_000.png"
ScreenshotCallsFixedName(action, idx) ==
    << [op |-> "screenshot", path |-> Get(action, "path", ShotName(0)),
        full_page |-> Get(action, "full_page", TRUE)] >>

\* lines 207-210, the page call of a screenshot action
ScreenshotCalls(action, idx) ==
    << [op |-> "screenshot", path |-> Get(action, "path", ShotName(idx)),
        full_page |-> Get(action, "full_page", TRUE)] >>

\* lines 178-210: the page calls of the branch of a known kind, in the order
\* the branch makes them
BranchCalls(action, kind, idx) ==
    CASE kind = "click" ->
           << [op |-> "click", selector |-> action["selector"]] >>
      [] kind = "scroll" -> ScrollCalls(action)
      [] kind = "wait" ->
           << [op |-> "wait_for_timeout", ms |-> Get(action, "ms", 500)] >>
      [] kind = "type" -> TypeCalls(action)
      [] kind = "screenshot" -> ScreenshotCalls(action, idx)

\* the final `elif kind == "screenshot"` written as a plain `else`
PageCallsElseScreenshot(action, kind, idx) ==
    IF kind \in KnownKinds
    THEN BranchCalls(action, kind, idx)
    ELSE BranchCalls(action, "screenshot", idx)

\* lines 178-212: the page calls of one action; the else branch of lines
\* 211-212 makes none
PageCalls(action, kind, idx) ==
    IF kind \in KnownKinds THEN BranchCalls(action, kind, idx) ELSE << >>

\* action["text"] read after page.fill: a type record that lacks text has
\* its element cleared before KeyError is raised
TurnEventsClearBeforeText(idx, kind, action, made, raises) ==
    << DoLine(idx, kind, action) >>
    \o (IF /\ raises /\ made = << >> /\ kind = "type"
           /\ Has(action, "selector") /\ ClearFirst(action)
        THEN << Returned([op |-> "fill", selector |-> action["selector"],
                          value |-> << >>]) >>
        ELSE << >>)
    \o [n \in 1..Len(made) |->
          IF raises /\ n = Len(made) THEN Raised(made[n]) ELSE Returned(made[n])]
    \o (IF ~raises /\ kind \notin KnownKinds
        THEN << UnknownLine(kind) >>
        ELSE << >>)

\* the required fields read before line 177 prints: a record that lacks one
\* raises before anything is printed
TurnEventsValidateFirst(idx, kind, action, made, raises) ==
    (IF raises /\ made = << >> THEN << >> ELSE << DoLine(idx, kind, action) >>)
    \o [n \in 1..Len(made) |->
          IF raises /\ n = Len(made) THEN Raised(made[n]) ELSE Returned(made[n])]
    \o (IF ~raises /\ kind \notin KnownKinds
        THEN << UnknownLine(kind) >>
        ELSE << >>)

\* line 177 moved to the end of the turn: an action that raises prints nothing
TurnEventsLogAfter(idx, kind, action, made, raises) ==
    [n \in 1..Len(made) |->
          IF raises /\ n = Len(made) THEN Raised(made[n]) ELSE Returned(made[n])]
    \o (IF raises THEN << >> ELSE << DoLine(idx, kind, action) >>)
    \o (IF ~raises /\ kind \notin KnownKinds
        THEN << UnknownLine(kind) >>
        ELSE << >>)

\* lines 176-212: what one turn of the loop prints and calls, in order, when
\* it makes the calls `made` and, if `raises`, ends in an exception (of the
\* last call made, or of a missing required field when no call is made)
TurnEvents(idx, kind, action, made, raises) ==
    << DoLine(idx, kind, action) >>
    \o [n \in 1..Len(made) |->
          IF raises /\ n = Len(made) THEN Raised(made[n]) ELSE Returned(made[n])]
    \o (IF ~raises /\ kind \notin KnownKinds
        THEN << UnknownLine(kind) >>
        ELSE << >>)

\* a call on a selector that matches no element raises; so does page.fill
\* on an element that is no input
MustFail(call) ==
    \/ Has(call, "selector") /\ ~Resolves(call.selector)
    \/ call.op = "fill" /\ call.selector \notin Inputs

RECURSIVE TypeKeys(_, _)
\* page.type: one key press per character of text, each appended to the value
TypeKeys(v, text) ==
    IF text = << >> THEN v ELSE TypeKeys(Append(v, Head(text)), Tail(text))

\* the effect on the page of a call that returns
ApplyCall(val, call) ==
    CASE call.op = "fill" /\ call.selector \in Inputs ->
           [val EXCEPT ![call.selector] = call.value]
      [] call.op = "type" /\ call.selector \in Inputs ->
           [val EXCEPT ![call.selector] = TypeKeys(val[call.selector], call.text)]
      [] OTHER -> val

RECURSIVE ApplyAll(_, _)
ApplyAll(val, cs) ==
    IF cs = << >> THEN val ELSE ApplyAll(ApplyCall(val, Head(cs)), Tail(cs))

\* the turn wrapped in a try/except that goes on with the next action
ReplayFailureCaught(exc) ==
    /\ i' = i + 1
    /\ UNCHANGED <<pc, error, playwright>>

\* the element branch evaluating window.scrollBy instead of el.scrollBy
ScrollCallMovesViewport(sc, call) ==
    IF call.op \in {"evaluate_scrollBy", "eval_on_selector"}
    THEN [sc EXCEPT !.viewport = <<@[1] + call.x, @[2] + call.y>>]
    ELSE sc

\* window.scrollBy / el.scrollBy of a call that returns: the offset moves
\* by (x, y)
ScrollCall(sc, call) ==
    CASE call.op = "evaluate_scrollBy" ->
           [sc EXCEPT !.viewport = <<@[1] + call.x, @[2] + call.y>>]
      [] call.op = "eval_on_selector" /\ call.selector \in Elements ->
           [sc EXCEPT !.element[call.selector] = <<@[1] + call.x, @[2] + call.y>>]
      [] OTHER -> sc

RECURSIVE ScrollAll(_, _)
ScrollAll(sc, cs) ==
    IF cs = << >> THEN sc ELSE ScrollAll(ScrollCall(sc, Head(cs)), Tail(cs))

\* page.screenshot of a call that returns: one capture written to path
ShotCall(sh, call) ==
    IF call.op = "screenshot"
    THEN Append(sh, [path |-> call.path, full_page |-> call.full_page])
    ELSE sh

RECURSIVE ShotsAll(_, _)
ShotsAll(sh, cs) ==
    IF cs = << >> THEN sh ELSE ShotsAll(ShotCall(sh, Head(cs)), Tail(cs))

\* what the loop does with an exception of an action: no handler encloses
\* lines 175-212, the exception leaves the loop and the function
ReplayFailure(exc) ==
    /\ Raise(exc)
    /\ UNCHANGED i

\* an index that advances by two
NextIndexSkip(idx) == idx + 2

\* line 175: enumerate hands out the next index
NextIndex(idx) == idx + 1

\* lines 175-212: one turn of the loop
ReplayAction ==
    /\ pc = "replay"
    /\ i < Len(actions)
    /\ LET action == actions[i + 1]
           kind   == Kind(action)
           plan   == IF MissingRequired(action, kind)
                     THEN << >>
                     ELSE PageCalls(action, kind, i)
       IN \/ /\ MissingRequired(action, kind)
             /\ trace' = trace \o TurnEvents(i, kind, action, << >>, TRUE)
             /\ ReplayFailure("KeyError")
             /\ UNCHANGED <<value, scroll, shots>>
          \/ /\ ~MissingRequired(action, kind)
             /\ \A n \in 1..Len(plan) : ~MustFail(plan[n])
             /\ trace' = trace \o TurnEvents(i, kind, action, plan, FALSE)
             /\ value' = ApplyAll(value, plan)
             /\ scroll' = ScrollAll(scroll, plan)
             /\ shots' = ShotsAll(shots, plan)
             /\ i' = NextIndex(i)
             /\ UNCHANGED <<pc, error, playwright>>
          \/ /\ ~MissingRequired(action, kind)
             /\ \E n \in 1..Len(plan) :
                   /\ \A m \in 1..(n - 1) : ~MustFail(plan[m])
                   /\ trace' = trace \o TurnEvents(i, kind, action,
                                                   SubSeq(plan, 1, n), TRUE)
                   /\ value' = ApplyAll(value, SubSeq(plan, 1, n - 1))
                   /\ scroll' = ScrollAll(scroll, SubSeq(plan, 1, n - 1))
                   /\ shots' = ShotsAll(shots, SubSeq(plan, 1, n - 1))
                   /\ ReplayFailure("Error")
    /\ UNCHANGED <<FONT_CSS, FONT_FACE_COUNT, actions, browser, engine_used,
                   launch_errors, context, browserClosed>>

\* context.close() indented into the loop body: the context is closed
\* while actions are still to be replayed
ContextCloseInLoop ==
    /\ pc = "replay"
    /\ trace' = Append(trace, Returned(Op("context.close")))
    /\ context' = "closed"
    /\ pc' = IF i >= Len(actions) THEN "browser_close" ELSE "replay"
    /\ UNCHANGED <<FONT_CSS, FONT_FACE_COUNT, actions, browser, engine_used,
                   launch_errors, browserClosed, playwright, i, value, scroll,
                   shots, error>>

\* line 213: context.close(), once the loop has gone through the list
ContextClose ==
    /\ pc = "replay"
    /\ i >= Len(actions)
    /\ trace' = Append(trace, Returned(Op("context.close")))
    /\ context' = "closed"
    /\ pc' = "browser_close"
    /\ UNCHANGED <<FONT_CSS, FONT_FACE_COUNT, actions, browser, engine_used,
                   launch_errors, browserClosed, playwright, i, value, scroll, shots, error>>

\* line 214: browser.close(), then the end of the with block of line 75
BrowserClose ==
    /\ pc = "browser_close"
    /\ trace' = Append(trace, Returned(Op("browser.close")))
    /\ browserClosed' = TRUE
    /\ playwright' = "stopped"
    /\ pc' = "done"
    /\ UNCHANGED <<FONT_CSS, FONT_FACE_COUNT, actions, browser, engine_used,
                   launch_errors, context, i, value, scroll, shots, error>>

Next ==
    \/ Start
    \/ LaunchChromium
    \/ LaunchFirefox
    \/ NewContext
    \/ AddInitScript
    \/ NewPage
    \/ Goto
    \/ WaitForLoadState
    \/ AddStyleTag
    \/ WaitFontsLoaded
    \/ WaitFontCheck
    \/ EvaluateFontCheck
    \/ ReplayAction
    \/ ContextClose
    \/ BrowserClose

Spec == Init /\ [][Next]_vars

\* every Playwright call eventually returns or raises (the waits of lines
\* 154-166 carry timeout=5000, wait_for_timeout is a bounded sleep), and
\* the interpreter runs the next statement: a run that can take a step
\* eventually takes one
FairSpec == Spec /\ WF_vars(Next)
-----------------------------------------------------------------------------
(* Reading the trace *)

IsCall(e) == e.tag = "call"
IsDo(e) == e.tag = "do"

\* the calls of the replay loop, of the font steps and of navigation
ActionOps == {"click", "fill", "type", "evaluate_scrollBy", "eval_on_selector",
              "wait_for_timeout", "screenshot"}
FontOps == {"add_init_script", "add_style_tag", "wait_for_function_status",
            "wait_for_function_check", "evaluate_font_check"}
NavOps == {"goto", "wait_for_load_state"}

IsCallOf(e, ops) == IsCall(e) /\ e.call.op \in ops
IsActionCall(e) == IsCallOf(e, ActionOps)

\* the lines `[i] do: ...` printed so far, and the action calls made so far
DoLines == SelectSeq(trace, IsDo)
ActionCalls == SelectSeq(trace, IsActionCall)

\* the run has ended: normally, or by an exception
Ended == pc \in {"done", "raised"}
RaisedAt(places) == pc = "raised" /\ error # NoError /\ error[2] \in places
RaisedInReplay == RaisedAt({"replay"})

\* the line printed for the action at Python index idx
DoLineOf(idx) == DoLine(idx, Kind(actions[idx + 1]), actions[idx + 1])

\* the calls of the action at Python index idx, all returned
ReturnedCallsOf(idx) ==
    LET plan == PageCalls(actions[idx + 1], Kind(actions[idx + 1]), idx)
    IN [n \in 1..Len(plan) |-> Returned(plan[n])]

RECURSIVE ReturnedCallsUpTo(_)
\* the calls of the first k actions, all returned, in list order
ReturnedCallsUpTo(k) ==
    IF k = 0 THEN << >> ELSE ReturnedCallsUpTo(k - 1) \o ReturnedCallsOf(k - 1)

-----------------------------------------------------------------------------
(* C1 *)

\* C1: whenever a run that created a browser context has ended, normally,
\* by a navigation failure (goto or the load-idle wait raised) or by a
\* failure of an action, context.close() and browser.close() have been
\* executed.
C1_ReleasedOnEveryExit ==
    (context # None /\ (pc = "done" \/ RaisedAt({"goto", "wait_for_load_state", "replay"})))
        => (context = "closed" /\ browserClosed)

-----------------------------------------------------------------------------
(* C2 *)

ActionRaised ==
    \/ \E n \in 1..Len(trace) : IsActionCall(trace[n]) /\ trace[n].raised
    \/ error # NoError /\ error[1] = "KeyError"

\* C2: once an action has raised (one of its page calls raised, or it lacks
\* a required field), the run has ended with that exception propagated, the
\* raising call is the last entry of the trace, the failing action is the one
\* at index i, and the lines `[j] do:` printed are those of j = 0..i only: no
\* action after the failing one is logged or executed.
C2_FailFast ==
    ActionRaised =>
        /\ RaisedInReplay
        /\ playwright = "stopped"
        /\ i < Len(actions)
        /\ Kind(actions[i + 1]) \in KnownKinds
        /\ DoLines = [k \in 1..(i + 1) |-> DoLineOf(k - 1)]
        /\ \A n \in 1..Len(trace) :
              (IsActionCall(trace[n]) /\ trace[n].raised) => n = Len(trace)
        /\ \/ trace[Len(trace)] = DoLineOf(i)
           \/ IsActionCall(trace[Len(trace)]) /\ trace[Len(trace)].raised

\* a click on a selector that matches nothing raised as the first of two
\* actions; the second was never reached
C2_Witness ==
    /\ RaisedInReplay
    /\ Len(actions) = 2
    /\ i = 0
    /\ trace[Len(trace)] = Raised([op |-> "click", selector |-> "#missing"])

-----------------------------------------------------------------------------
(* C3 *)

IsUnknown(action) == Kind(action) \notin KnownKinds

\* one turn of the loop on a record of unknown kind
C3_UnknownTurn ==
    (pc = "replay" /\ i < Len(actions) /\ IsUnknown(actions[i + 1])) =>
        /\ trace' = trace \o << DoLineOf(i), UnknownLine(Kind(actions[i + 1])) >>
        /\ i' = i + 1
        /\ pc' = "replay"
        /\ error' = NoError
        /\ value' = value
        /\ UNCHANGED <<scroll, shots, context, browserClosed, playwright>>

\* C3: a turn of the loop on a record whose kind is none of click, scroll,
\* wait, type, screenshot prints its `do` line and an "unknown action" line,
\* makes no call, raises nothing, changes nothing of the page and goes on
\* to the next index, wherever the record stands in the list; and a run
\* over a list of unknown records only never ends by an exception of replay.
C3_UnknownIsNoOp ==
    /\ [][C3_UnknownTurn]_vars
    /\ []((\A k \in 1..Len(actions) : IsUnknown(actions[k])) => ~RaisedInReplay)

\* a list of three unknown records has been replayed to the end: three
\* "unknown action" lines, no action call, no error
C3_Witness ==
    /\ pc = "done"
    /\ Len(actions) = 3
    /\ \A k \in 1..3 : IsUnknown(actions[k])
    /\ Len(SelectSeq(trace, LAMBDA e : e.tag = "unknown")) = 3
    /\ ActionCalls = << >>
    /\ error = NoError

-----------------------------------------------------------------------------
(* C4 *)

\* C4: as long as no action has failed, the `do` lines printed are exactly
\* those of the actions 0..i-1, one each and in list order, the action calls
\* made are the calls of these actions concatenated in list order, every one
\* returned, and the loop is left only when i has reached the length of the
\* list.
C4_EachOnceInOrder ==
    pc \in {"replay", "browser_close", "done"} =>
        /\ i <= Len(actions)
        /\ DoLines = [k \in 1..i |-> DoLineOf(k - 1)]
        /\ ActionCalls = ReturnedCallsUpTo(i)
        /\ (pc # "replay" => i = Len(actions))

\* a list of three actions of different kinds has been replayed to the end
C4_Witness ==
    /\ pc = "done"
    /\ Len(actions) = 3
    /\ Kind(actions[1]) = "click"
    /\ Kind(actions[2]) = "type"
    /\ Kind(actions[3]) = "wait"
    /\ Len(ActionCalls) = 3

-----------------------------------------------------------------------------
(* C5 *)

\* position of the last `do` line before position n of the trace, 0 if none
LastDoBefore(n) ==
    LET before == { m \in 1..(n - 1) : IsDo(trace[m]) }
    IN IF before = {} THEN 0 ELSE CHOOSE m \in before : \A q \in before : q <= m

\* C5: every `do` line is the line (index, kind, record) of its action;
\* everything the loop did before it was printed is the complete, successful
\* turns of the actions before it; every action call stands after the `do`
\* line of the action it belongs to; and an action that raised, a missing
\* required field included, has its `do` line in the trace.
C5_LoggedBeforeExecuted ==
    /\ \A m \in 1..Len(trace) :
          IsDo(trace[m]) =>
             LET idx == trace[m].i
             IN /\ idx < Len(actions)
                /\ trace[m] = DoLineOf(idx)
                /\ Len(SelectSeq(SubSeq(trace, 1, m - 1), IsDo)) = idx
                /\ SelectSeq(SubSeq(trace, 1, m - 1), IsActionCall)
                      = ReturnedCallsUpTo(idx)
    /\ \A n \in 1..Len(trace) :
          IsActionCall(trace[n]) =>
             LET m == LastDoBefore(n)
             IN /\ m > 0
                /\ \E q \in 1..Len(ReturnedCallsOf(trace[m].i)) :
                      ReturnedCallsOf(trace[m].i)[q].call = trace[n].call
    /\ RaisedInReplay => \E m \in 1..Len(trace) : trace[m] = DoLineOf(i)

\* a click that lacks its selector raised KeyError as the second action,
\* with its `do` line printed last
C5_Witness ==
    /\ RaisedInReplay
    /\ error[1] = "KeyError"
    /\ i = 1
    /\ trace[Len(trace)] = DoLine(1, "click", [action |-> "click"])

-----------------------------------------------------------------------------
(* C6 *)

\* the known kinds of a sequence of kinds, in order
KnownOnly(kinds) == SelectSeq(kinds, LAMBDA k : k \in KnownKinds)

\* the kinds of the `do` lines, and the kinds of the first k actions
LoggedKinds == [k \in 1..Len(DoLines) |-> DoLines[k].kind]
KindsUpTo(k) == [j \in 1..k |-> Kind(actions[j])]

\* C6, as stated: at the end of a run the kinds logged, unknown ones left
\* out, are the kinds of the actions executed successfully (the first i
\* actions), in list order.
C6_LogIsExecutedPrefix ==
    Ended => KnownOnly(LoggedKinds) = KnownOnly(KindsUpTo(i))

\* C6, amended: at the end of a run the kinds logged, unknown ones left out,
\* are the kinds of the actions executed successfully followed, when an
\* action raised, by the kind of that action, in list order.
C6_LogIsAttemptedPrefix ==
    Ended => KnownOnly(LoggedKinds)
                = KnownOnly(KindsUpTo(IF RaisedInReplay THEN i + 1 ELSE i))

\* a wait was executed, then a click on a selector that matches nothing
\* raised: both kinds are logged
C6_Witness ==
    /\ RaisedInReplay
    /\ i = 1
    /\ LoggedKinds = << "wait", "click" >>
    /\ trace[Len(trace)] = Raised([op |-> "click", selector |-> "#missing"])

-----------------------------------------------------------------------------
(* C7 *)

\* C7: when FONT_CSS is empty no injection, readiness wait or diagnostic
\* evaluation is ever called and no injection line is printed, the run is
\* never ended by one of these steps, what follows the load-idle wait in
\* the trace is the first `do` line (or context.close for an empty list);
\* and, with or without FONT_CSS, a run that ends normally has made exactly
\* the calls of its actions, in list order, and left the page with the
\* values these calls produce.
C7_NoFontNoInjection ==
    /\ FONT_CSS = "" =>
          /\ \A n \in 1..Len(trace) :
                /\ ~IsCallOf(trace[n], FontOps)
                /\ trace[n] # Info("injecting custom font css")
                /\ (trace[n] = Returned(Op("wait_for_load_state")) /\ n < Len(trace))
                      => \/ trace[n + 1] = Returned(Op("context.close"))
                         \/ IsDo(trace[n + 1]) /\ trace[n + 1].i = 0
          /\ ~RaisedAt({"add_init_script", "add_style_tag", "wait_fonts_loaded",
                        "wait_font_check", "evaluate_font_check"})
    /\ pc = "done" =>
          /\ ActionCalls = ReturnedCallsUpTo(Len(actions))
          /\ value = ApplyAll(InitialValue,
                              [n \in 1..Len(ActionCalls) |-> ActionCalls[n].call])

\* without FONT_CSS a list of two actions was replayed to the end
C7_Witness ==
    /\ FONT_CSS = ""
    /\ pc = "done"
    /\ Len(actions) = 2
    /\ Len(ActionCalls) >= 2
    /\ error = NoError

-----------------------------------------------------------------------------
(* C8 *)

\* C8: no run is ended by the exception of a font step: early injection,
\* late injection, first readiness wait, fallback readiness check,
\* diagnostic evaluation.
C8_FontFailuresSwallowed ==
    \A n \in 1..Len(trace) :
        (IsCallOf(trace[n], FontOps) /\ trace[n].raised) => pc # "raised"

-----------------------------------------------------------------------------
(* C9 *)

\* C9: once page.goto or the load-idle wait has raised, the run has ended
\* with that exception propagated and the raising call is the last entry of
\* the trace: no late injection, readiness wait, diagnostic evaluation or
\* action comes after it.
C9_NavigationFailureIsFatal ==
    \A n \in 1..Len(trace) :
        (IsCallOf(trace[n], NavOps) /\ trace[n].raised) =>
            /\ RaisedAt({"goto", "wait_for_load_state"})
            /\ playwright = "stopped"
            /\ n = Len(trace)
            /\ i = 0
            /\ DoLines = << >>
            /\ \A m \in 1..Len(trace) :
                  ~IsCallOf(trace[m], ActionOps \cup
                      {"add_style_tag", "wait_for_function_status",
                       "wait_for_function_check", "evaluate_font_check"})

\* the load-idle wait timed out in a run with FONT_CSS and a non-empty list
C9_Witness ==
    /\ RaisedAt({"wait_for_load_state"})
    /\ FONT_CSS # ""
    /\ Len(actions) > 0
    /\ trace[Len(trace)] = Raised(Op("wait_for_load_state"))

-----------------------------------------------------------------------------
(* C10 *)

\* the entries a step appended to the trace
Appended == SubSeq(trace', Len(trace) + 1, Len(trace'))

\* one turn of the loop on a type action that raised nothing
C10_TypeTurn ==
    (/\ pc = "replay" /\ i < Len(actions)
     /\ Kind(actions[i + 1]) = "type"
     /\ pc' = "replay") =>
        LET a    == actions[i + 1]
            sel  == a["selector"]
            fill == Returned([op |-> "fill", selector |-> sel, value |-> << >>])
            keys == Returned([op |-> "type", selector |-> sel, text |-> a["text"]])
        IN IF ~Has(a, "clear") \/ a["clear"] = TRUE
           THEN /\ value'[sel] = a["text"]
                /\ Appended = << DoLineOf(i), fill, keys >>
           ELSE /\ value'[sel] = value[sel] \o a["text"]
                /\ Appended = << DoLineOf(i), keys >>

\* C10: a type action that raises nothing leaves the element with exactly
\* `text` as its value when clear is true or absent, and with its prior
\* value followed by `text` when clear is false; the clearing, when done,
\* is one page.fill(selector, "") made before page.type on the same selector.
C10_TypeClearsOrAppends == [][C10_TypeTurn]_vars

\* text was appended to the initial value, then a type action without
\* `clear` replaced the whole of it by text
C10_Witness ==
    /\ pc = "done"
    /\ Len(actions) = 2
    /\ Kind(actions[1]) = "type" /\ Has(actions[1], "clear") /\ ~actions[1]["clear"]
    /\ Kind(actions[2]) = "type" /\ ~Has(actions[2], "clear")
    /\ value["#q"] = Text

-----------------------------------------------------------------------------
(* C11 *)

\* the action of the turn about to be taken
CurrentAction == actions[i + 1]
InTurn == pc = "replay" /\ i < Len(actions)

\* one turn of the loop on a scroll action whose target is "window"
C11_WindowTurn ==
    (/\ InTurn
     /\ Kind(CurrentAction) = "scroll"
     /\ Has(CurrentAction, "target") /\ CurrentAction["target"] = "window") =>
        LET x == Get(CurrentAction, "x", 0)
            y == Get(CurrentAction, "y", 0)
        IN /\ Len(Appended) = 2
           /\ Appended[1] = DoLineOf(i)
           /\ IsCall(Appended[2])
           /\ Appended[2].call = [op |-> "evaluate_scrollBy", x |-> x, y |-> y]
           /\ scroll'.element = scroll.element
           /\ scroll'.viewport =
                 IF Appended[2].raised
                 THEN scroll.viewport
                 ELSE <<scroll.viewport[1] + x, scroll.viewport[2] + y>>

-----------------------------------------------------------------------------
(* C12 *)

\* a click record without selector, a type record without selector or text
LacksRequired(action) ==
    \/ Kind(action) = "click" /\ ~Has(action, "selector")
    \/ Kind(action) = "type" /\ (~Has(action, "selector") \/ ~Has(action, "text"))

\* one turn of the loop on such a record
C12_Turn ==
    (InTurn /\ LacksRequired(CurrentAction)) =>
        /\ Appended = << DoLineOf(i) >>
        /\ pc' = "raised"
        /\ error' = <<"KeyError", "replay">>
        /\ i' = i
        /\ UNCHANGED <<value, scroll, shots>>

\* C12: a turn on a click record without selector or a type record without
\* selector or text prints its `do` line and raises KeyError: no call is
\* made, the page is left as it was (no clearing, even with clear true), and
\* the run has ended at that action, its `do` line being the last entry of
\* the trace.
C12_MissingFieldIsFatal ==
    /\ [][C12_Turn]_vars
    /\ []((error # NoError /\ error[1] = "KeyError") =>
             /\ pc = "raised"
             /\ i < Len(actions)
             /\ LacksRequired(actions[i + 1])
             /\ trace[Len(trace)] = DoLineOf(i))

\* a type record with clear true and no text raised as the first of two
\* actions: the element still holds its initial value
C12_Witness ==
    /\ RaisedInReplay
    /\ error[1] = "KeyError"
    /\ Len(actions) = 2
    /\ i = 0
    /\ actions[1] = [action |-> "type", selector |-> "#q", clear |-> TRUE]
    /\ value = InitialValue
    /\ ActionCalls = << >>

-----------------------------------------------------------------------------
(* C13 *)

\* the record with the stated default written out for each optional field
\* it omits
WithDefaults(action) ==
    CASE Kind(action) = "wait"       -> action @@ [ms |-> 500]
      [] Kind(action) = "type"       -> action @@ [clear |-> TRUE]
      [] Kind(action) = "scroll"     -> action @@ [x |-> 0, y |-> 0]
      [] Kind(action) = "screenshot" -> action @@ [full_page |-> TRUE]
      [] OTHER                       -> action

\* the calls a step appended to the trace, and those of them that returned
AppendedCalls ==
    LET cs == SelectSeq(Appended, IsCall) IN [n \in 1..Len(cs) |-> cs[n].call]
AppendedReturned ==
    LET cs == SelectSeq(Appended, LAMBDA e : IsCall(e) /\ ~e.raised)
    IN [n \in 1..Len(cs) |-> cs[n].call]

\* one turn of the loop on a wait, type, scroll or screenshot record that
\* has its required fields
C13_Turn ==
    (/\ InTurn
     /\ Kind(CurrentAction) \in {"wait", "type", "scroll", "screenshot"}
     /\ ~LacksRequired(CurrentAction)) =>
        LET full == PageCalls(WithDefaults(CurrentAction), Kind(CurrentAction), i)
        IN /\ Len(AppendedCalls) <= Len(full)
           /\ AppendedCalls = SubSeq(full, 1, Len(AppendedCalls))
           /\ (pc' = "replay" => AppendedCalls = full)
           /\ value' = ApplyAll(value, AppendedReturned)
           /\ scroll' = ScrollAll(scroll, AppendedReturned)
           /\ shots' = ShotsAll(shots, AppendedReturned)

\* C13: a turn on a record that omits an optional field makes the calls,
\* with the arguments, of the same record with the default written out
\* (ms 500, clear true, x 0, y 0, full_page true), all of them when nothing
\* raises, and has their effect on the page.
C13_OmittedIsDefault == [][C13_Turn]_vars

\* a wait without ms and a scroll without x were replayed: the wait was of
\* 500 ms, the element scrolled by (0, 800)
C13_Witness ==
    /\ pc = "done"
    /\ actions = << [action |-> "wait"],
                    [action |-> "scroll", target |-> "#main", y |-> 800] >>
    /\ ActionCalls = << Returned([op |-> "wait_for_timeout", ms |-> 500]),
                        Returned([op |-> "eval_on_selector", selector |-> "#main",
                                  x |-> 0, y |-> 800]) >>
    /\ scroll.element["#main"] = <<0, 800>>

-----------------------------------------------------------------------------
(* C14 *)

\* the capture a screenshot action at Python index idx asks for
ShotOf(idx) ==
    LET a == actions[idx + 1]
    IN [path |-> IF Has(a, "path") THEN a["path"] ELSE ShotName(idx),
        full_page |-> IF Has(a, "full_page") THEN a["full_page"] ELSE TRUE]

RECURSIVE ShotsUpTo(_)
\* the captures of the screenshot actions among the first k actions
ShotsUpTo(k) ==
    IF k = 0 THEN << >>
    ELSE IF Kind(actions[k]) = "screenshot"
         THEN Append(ShotsUpTo(k - 1), ShotOf(k - 1))
         ELSE ShotsUpTo(k - 1)

WaitThenShot ==
    << [action |-> "wait", ms |-> 100],
       [action |-> "screenshot", path |-> <<"a.png">>, full_page |-> FALSE] >>

\* C14: at every moment of a run, after a failure too, the captures made
\* are those of the screenshot actions among the i actions executed so far,
\* each with its path and full_page flag, in list order; and the run of
\* [wait 100 ms, screenshot a.png full_page false], once ended normally, has
\* made the one capture of a.png, printed the two `do` lines wait then
\* screenshot, and closed context and browser.
C14_CapturesOfExecutedScreenshots ==
    /\ i <= Len(actions)
    /\ shots = ShotsUpTo(i)
    /\ (actions = WaitThenShot /\ pc = "done") =>
          /\ shots = << [path |-> <<"a.png">>, full_page |-> FALSE] >>
          /\ LoggedKinds = << "wait", "screenshot" >>
          /\ context = "closed"
          /\ browserClosed

\* a.png was captured, then a click on a selector that matches nothing
\* raised: the capture is kept
C14_Witness ==
    /\ RaisedInReplay
    /\ Len(actions) = 2
    /\ Kind(actions[1]) = "screenshot"
    /\ Kind(actions[2]) = "click"
    /\ i = 1
    /\ shots = << [path |-> <<"a.png">>, full_page |-> FALSE] >>

-----------------------------------------------------------------------------
(* C15 *)

\* how many calls of `name` the trace holds
Count(name) ==
    Len(SelectSeq(trace, LAMBDA e : IsCall(e) /\ e.call.op = name))

\* C15: a run never creates more than one context or page, never navigates
\* more than once and never closes the context or the browser more than
\* once; once it has reached the replay loop it has created exactly one
\* context and one page and navigated exactly once, each call having
\* returned; and after context.close() the only call is browser.close():
\* no navigation, injection, readiness wait or action follows the close.
C15_OneSessionOneNavigation ==
    /\ \A name \in {"new_context", "new_page", "goto", "wait_for_load_state",
                    "context.close", "browser.close"} : Count(name) <= 1
    /\ pc \in {"replay", "browser_close", "done"} =>
          \A name \in {"new_context", "new_page", "goto", "wait_for_load_state"} :
              /\ Count(name) = 1
              /\ \E n \in 1..Len(trace) : trace[n] = Returned(Op(name))
    /\ (context = "closed") <=> (Count("context.close") = 1)
    /\ browserClosed <=> (Count("browser.close") = 1)
    /\ \A n \in 1..Len(trace) :
          trace[n] = Returned(Op("context.close")) =>
             \A m \in (n + 1)..Len(trace) : trace[m] = Returned(Op("browser.close"))

\* a run over two actions has ended normally: one context, one page, one
\* navigation, one close of each
C15_Witness ==
    /\ pc = "done"
    /\ Len(actions) = 2
    /\ Len(ActionCalls) = 2
    /\ Count("new_page") = 1
    /\ Count("goto") = 1
    /\ Count("context.close") = 1
    /\ trace[Len(trace)] = Returned(Op("browser.close"))

-----------------------------------------------------------------------------
(* C16 *)

\* a turn on a scroll action that names the target "window" is not a window
\* scroll: it evaluates no window.scrollBy and leaves the viewport in place
C16_WindowTurn ==
    (/\ InTurn
     /\ Kind(CurrentAction) = "scroll"
     /\ Has(CurrentAction, "target") /\ CurrentAction["target"] = "window") =>
        /\ \A n \in 1..Len(AppendedCalls) : AppendedCalls[n].op # "evaluate_scrollBy"
        /\ scroll'.viewport = scroll.viewport

\* C16: the command-line help (lines 1139-1155) says that the target of a
\* scroll action is the CSS selector of the element to scroll and that
\* window cannot be specified: a scroll action whose target is "window" is
\* never replayed as a scroll of the window.
C16_WindowTargetRefused == [][C16_WindowTurn]_vars

-----------------------------------------------------------------------------
(* C17 *)

\* the positions of the trace where page.add_style_tag raised
LateInjectionFailedAt == {n \in 1..Len(trace) : trace[n] = Raised(Op("add_style_tag"))}

\* C17: when page.add_style_tag has raised, FONT_CSS is not empty, the next
\* line of the trace is the warning "page-level font css injection failed",
\* the exception is not propagated (the run can only end by an exception of
\* an action), the first readiness wait follows, and a run that then ends
\* normally has replayed every action of the list.
C17_LateInjectionFailureIsLogged ==
    \A n \in LateInjectionFailedAt :
        /\ FONT_CSS # ""
        /\ n < Len(trace)
        /\ trace[n + 1] = Warn("page-level font css injection failed")
        /\ pc = "raised" => (RaisedInReplay /\ ActionRaised)
        /\ pc # "add_style_tag"
        /\ pc # "wait_fonts_loaded" =>
              /\ n + 2 <= Len(trace)
              /\ IsCallOf(trace[n + 2], {"wait_for_function_status"})
        /\ pc = "done" =>
              /\ i = Len(actions)
              /\ DoLines = [k \in 1..Len(actions) |-> DoLineOf(k - 1)]
              /\ ActionCalls = ReturnedCallsUpTo(Len(actions))

\* the late injection failed and the run went on to replay two actions and
\* to end normally
C17_Witness ==
    /\ LateInjectionFailedAt # {}
    /\ pc = "done"
    /\ Len(actions) = 2
    /\ Len(DoLines) = 2
    /\ Len(ActionCalls) >= 2

-----------------------------------------------------------------------------
(* C18 *)

\* the run is past the readiness waits of lines 154-166
PastReadiness ==
    pc \in {"evaluate_font_check", "replay", "browser_close", "done"} \/ RaisedInReplay

\* the entry e is in the trace
InTrace(e) == \E n \in 1..Len(trace) : trace[n] = e

ReadinessWarning == Warn("font readiness wait failed")

\* C18: in a run with FONT_CSS, the wait for document.fonts.status is made
\* once, first; the fallback wait for document.fonts.check is made if and
\* only if the first wait raised, right after it; the warning "font
\* readiness wait failed" is printed if and only if both raised; and
\* neither wait ends the run: whatever the two outcomes, the run goes on to
\* the replay loop.
C18_ReadinessFallbackChain ==
    FONT_CSS # "" =>
        /\ Count("wait_for_function_status") <= 1
        /\ Count("wait_for_function_check") <= 1
        /\ \A n \in 1..Len(trace) :
              /\ IsCallOf(trace[n], {"wait_for_function_check"}) =>
                    (n > 1 /\ trace[n - 1] = Raised(Op("wait_for_function_status")))
              /\ trace[n] = ReadinessWarning =>
                    (n > 1 /\ trace[n - 1] = Raised(Op("wait_for_function_check")))
        /\ pc = "wait_font_check" =>
              /\ trace[Len(trace)] = Raised(Op("wait_for_function_status"))
              /\ Count("wait_for_function_check") = 0
        /\ PastReadiness =>
              /\ Count("wait_for_function_status") = 1
              /\ (Count("wait_for_function_check") = 1)
                    <=> InTrace(Raised(Op("wait_for_function_status")))
              /\ InTrace(ReadinessWarning)
                    <=> (/\ InTrace(Raised(Op("wait_for_function_status")))
                         /\ InTrace(Raised(Op("wait_for_function_check"))))
        /\ ~RaisedAt({"wait_fonts_loaded", "wait_font_check"})
        /\ (pc = "done" /\ ~ActionRaised) =>
              (i = Len(actions) /\ Len(DoLines) = Len(actions))

\* both waits raised, the warning was printed, and the run replayed its two
\* actions and ended normally
C18_Witness ==
    /\ FONT_CSS # ""
    /\ InTrace(Raised(Op("wait_for_function_status")))
    /\ InTrace(Raised(Op("wait_for_function_check")))
    /\ InTrace(ReadinessWarning)
    /\ pc = "done"
    /\ Len(actions) = 2
    /\ Len(DoLines) = 2

-----------------------------------------------------------------------------
(* C19 *)

\* the positions of the trace where the diagnostic page.evaluate was called
FontCheckAt == {n \in 1..Len(trace) : IsCallOf(trace[n], {"evaluate_font_check"})}

\* C19: in a run with FONT_CSS, the diagnostic evaluation of
\* document.fonts.check is made exactly once by the time the replay loop is
\* entered, whatever the outcomes of the readiness waits; it comes after
\* the waits and before every do line and every call of an action; it is
\* followed by the info line when it returned and by the warning "font
\* check evaluation failed" when it raised, and its exception never ends
\* the run.
C19_OneDiagnosticEvaluation ==
    FONT_CSS # "" =>
        /\ Count("evaluate_font_check") <= 1
        /\ (pc \in {"replay", "browser_close", "done"} \/ RaisedInReplay) =>
              Count("evaluate_font_check") = 1
        /\ \A n \in FontCheckAt :
              /\ \A m \in 1..Len(trace) :
                    /\ IsCallOf(trace[m], {"wait_for_function_status",
                                           "wait_for_function_check"}) => m < n
                    /\ (IsDo(trace[m]) \/ IsActionCall(trace[m])) => m > n
              /\ Count("wait_for_function_status") = 1
              /\ n < Len(trace)
              /\ trace[n + 1] = IF trace[n].raised
                                THEN Warn("font check evaluation failed")
                                ELSE Info("font check")
        /\ ~RaisedAt({"evaluate_font_check"})

\* both readiness waits and the diagnostic evaluation raised, and the run
\* replayed its two actions and ended normally
C19_Witness ==
    /\ FONT_CSS # ""
    /\ InTrace(Raised(Op("wait_for_function_check")))
    /\ InTrace(Raised(Op("evaluate_font_check")))
    /\ InTrace(Warn("font check evaluation failed"))
    /\ pc = "done"
    /\ Len(actions) = 2
    /\ Len(DoLines) = 2

-----------------------------------------------------------------------------
(* C20 *)

\* the places of run_actions_on_html in the order of its lines
Places == << "start", "launch_chromium", "launch_firefox", "new_context",
             "add_init_script", "new_page", "goto", "wait_for_load_state",
             "add_style_tag", "wait_fonts_loaded", "wait_font_check",
             "evaluate_font_check", "replay", "browser_close", "done",
             "raised" >>
Pos(p) == CHOOSE n \in 1..Len(Places) : Places[n] = p

\* the phase of the run: Initializing (1) until the load-idle wait has
\* returned, Navigated (2) until the late injection is over, StyleApplied
\* (3) during the readiness block of a run with FONT_CSS, Replaying (4) in
\* the loop, Terminated (5) from context.close() on or after an exception
PhaseOf(p, css) ==
    IF Pos(p) <= Pos("wait_for_load_state") THEN 1
    ELSE IF p = "add_style_tag" THEN 2
    ELSE IF p \in {"wait_fonts_loaded", "wait_font_check", "evaluate_font_check"}
         THEN (IF css = "" THEN 2 ELSE 3)
    ELSE IF p = "replay" THEN 4
    ELSE 5
Phase == PhaseOf(pc, FONT_CSS)

\* a step never moves to an earlier phase, moves to a later place of the
\* function unless it is one more turn of the replay loop, and leaves the
\* Terminated phase only for itself
C20_Forward ==
    /\ Phase' >= Phase
    /\ \/ Pos(pc') > Pos(pc)
       \/ pc = "replay" /\ pc' = "replay" /\ i' = i + 1
    /\ pc \in {"done", "raised"} => pc' = pc

\* C20: the phases Initializing, Navigated, StyleApplied, Replaying,
\* Terminated only advance: no step goes back to an earlier phase, so none
\* is entered twice; StyleApplied is entered only in a run with FONT_CSS; no
\* call that raised is made a second time; and the replay loop is entered
\* only after page.goto and the load-idle wait have returned.
C20_PhasesOnlyAdvance ==
    /\ [][C20_Forward]_vars
    /\ [](/\ Phase = 3 => FONT_CSS # ""
          /\ \A n \in 1..Len(trace) : \A m \in (n + 1)..Len(trace) :
                (IsCall(trace[n]) /\ trace[n].raised /\ IsCall(trace[m]))
                    => trace[m].call.op # trace[n].call.op
          /\ (Phase \in 2..4 \/ pc \in {"browser_close", "done"}) =>
                /\ InTrace(Returned(Op("goto")))
                /\ InTrace(Returned(Op("wait_for_load_state")))
          /\ (Phase = 4 /\ FONT_CSS # "") => Count("evaluate_font_check") = 1)

\* a run with FONT_CSS that fell back to firefox went through every phase
\* and ended normally after two actions
C20_Witness ==
    /\ pc = "done"
    /\ FONT_CSS # ""
    /\ engine_used = "firefox"
    /\ InTrace(Raised(Op("chromium.launch")))
    /\ Len(actions) = 2
    /\ Len(DoLines) = 2

-----------------------------------------------------------------------------
(* C21 *)

\* what is left of the run: the places of the function still ahead and the
\* actions still to be replayed
Variant == (Len(Places) - Pos(pc)) + (Len(actions) - i)

\* every step of the run uses up a place of the function or an action
C21_Decreases == Variant' < Variant

\* C21: when every Playwright call eventually returns or raises, every run
\* eventually ends, normally or by a propagated exception, whatever the
\* outcomes of the readiness waits and of the actions: each step brings the
\* run nearer to its end, no step waits again for font readiness, and the
\* end is reached.
C21_RunEnds ==
    /\ [][C21_Decreases]_vars
    /\ [](Variant \in Nat)
    /\ <>Ended
    /\ (pc = "wait_fonts_loaded" /\ FONT_CSS # "") ~> (pc = "replay")

\* both readiness waits raised, an action raised, and the run has ended
C21_Witness ==
    /\ InTrace(Raised(Op("wait_for_function_status")))
    /\ InTrace(Raised(Op("wait_for_function_check")))
    /\ Len(actions) = 2
    /\ RaisedInReplay
    /\ i = 1

-----------------------------------------------------------------------------
(* C22 *)

\* the positions of the trace that hold a call of one of `ops`
CallsAt(ops) == {n \in 1..Len(trace) : IsCallOf(trace[n], ops)}

\* the positions of the trace that belong to the replay loop
ReplayAt == {n \in 1..Len(trace) : IsDo(trace[n]) \/ IsActionCall(trace[n])}

\* every position of A comes before every position of B
Before(A, B) == \A a \in A : \A b \in B : a < b

\* C22: in a run with FONT_CSS, context.add_init_script is called once,
\* after new_context returned and before new_page and page.goto;
\* page.add_style_tag is called once, after the load-idle wait returned and
\* before the readiness waits; and both come before the first do line and
\* the first call of an action.
C22_InjectionOrder ==
    FONT_CSS # "" =>
        LET early == CallsAt({"add_init_script"})
            late  == CallsAt({"add_style_tag"})
        IN /\ Cardinality(early) <= 1
           /\ Cardinality(late) <= 1
           /\ Before(CallsAt({"new_context"}), early)
           /\ Before(early, CallsAt({"new_page", "goto", "wait_for_load_state"}))
           /\ Before(CallsAt({"goto", "wait_for_load_state"}), late)
           /\ Before(late, CallsAt({"wait_for_function_status",
                                    "wait_for_function_check",
                                    "evaluate_font_check"}))
           /\ Before(early \cup late, ReplayAt)
           /\ CallsAt({"new_page", "goto"}) # {} =>
                 \E n \in early : trace[n] = Returned(Op("add_init_script"))
           /\ early # {} => InTrace(Returned(Op("new_context")))
           /\ late # {} => InTrace(Returned(Op("wait_for_load_state")))
           /\ (CallsAt({"wait_for_function_status"}) # {} \/ ReplayAt # {}) =>
                 (Cardinality(early) = 1 /\ Cardinality(late) = 1)

\* a run with FONT_CSS made both injections and replayed two actions
C22_Witness ==
    /\ FONT_CSS # ""
    /\ InTrace(Returned(Op("add_init_script")))
    /\ InTrace(Returned(Op("add_style_tag")))
    /\ pc = "done"
    /\ Len(actions) = 2
    /\ Len(ActionCalls) >= 2

-----------------------------------------------------------------------------
(* C23 *)

FontNotFound == Warn("font not found")

\* C23: build_font_css returns ("", 0) when the font file is missing and
\* when reading it raises OSError, printing a warning in the second case
\* only, and returns non-empty CSS with count 1 when the file was read; so
\* FONT_CSS is empty exactly when FONT_FACE_COUNT is 0, and a run prints the
\* font-not-found warning at its start exactly when it makes none of the
\* injection and readiness calls.
C23_CssIffCount ==
    /\ \A exists \in BOOLEAN, readable \in BOOLEAN :
          LET r == build_font_css(exists, readable)
          IN /\ (r.css = "") <=> (r.count = 0)
             /\ r.count \in {0, 1}
             /\ (exists /\ readable) <=> (r.css # "" /\ r.count = 1)
             /\ (exists /\ ~readable) <=> (r.printed = << Warn("failed to load font") >>)
             /\ r.printed # << >> => r.css = ""
    /\ (FONT_CSS = "") <=> (FONT_FACE_COUNT = 0)
    /\ InTrace(Warn("failed to load font")) => (FONT_CSS = "" /\ FONT_FACE_COUNT = 0)
    /\ pc # "start" => (InTrace(FontNotFound) <=> FONT_CSS = "")
    /\ InTrace(FontNotFound) => CallsAt(FontOps) = {}
    /\ (pc \in {"replay", "browser_close", "done"} /\ ~InTrace(FontNotFound)) =>
          \A name \in {"add_init_script", "add_style_tag",
                       "wait_for_function_status", "evaluate_font_check"} :
              Count(name) = 1

\* the font file could not be read: both warnings were printed and the run
\* ended normally without a single injection or readiness call
C23_Witness ==
    /\ Len(trace) >= 2
    /\ trace[1] = Warn("failed to load font")
    /\ trace[2] = FontNotFound
    /\ pc = "done"
    /\ Len(actions) = 2
    /\ CallsAt(FontOps) = {}

-----------------------------------------------------------------------------
(* C24 *)

\* a turn on a scroll action that names a target other than "window"
C24_ElementTurn ==
    (/\ InTurn
     /\ Kind(CurrentAction) = "scroll"
     /\ Has(CurrentAction, "target") /\ CurrentAction["target"] # "window") =>
        LET target == CurrentAction["target"]
            x == Get(CurrentAction, "x", 0)
            y == Get(CurrentAction, "y", 0)
        IN /\ Len(Appended) = 2
           /\ Appended[1] = DoLineOf(i)
           /\ IsCall(Appended[2])
           /\ Appended[2].call =
                 [op |-> "eval_on_selector", selector |-> target, x |-> x, y |-> y]
           /\ scroll'.viewport = scroll.viewport
           /\ ~Resolves(target) => Appended[2].raised
           /\ IF Appended[2].raised
              THEN /\ scroll' = scroll
                   /\ pc' = "raised"
                   /\ error' # NoError /\ error'[2] = "replay"
                   /\ i' = i
              ELSE /\ scroll'.element =
                         [scroll.element EXCEPT
                             ![target] = <<@[1] + x, @[2] + y>>]
                   /\ pc' = "replay"
                   /\ i' = i + 1

\* C24: a turn on a scroll action whose target is a string other than
\* "window" makes one call, page.eval_on_selector(target, el.scrollBy(x, y));
\* when it returns, the matched element alone has moved by (x, y) and the
\* viewport has not; when the selector does not resolve the call raises, no
\* scroll position changes and the run ends with the exception.
C24_ElementScroll ==
    /\ [][C24_ElementTurn]_vars
    /\ [](RaisedInReplay => (i < Len(actions) /\ context = "open" /\ ~browserClosed))

\* #main was scrolled twice by (0, 800): it stands at (0, 1600) and the
\* viewport has not moved
C24_Witness ==
    /\ pc = "done"
    /\ Len(actions) = 2
    /\ scroll.element["#main"] = <<0, 1600>>
    /\ scroll.viewport = <<0, 0>>

-----------------------------------------------------------------------------
(* C25 *)

\* the positions of the trace where page.screenshot was called by an action
\* that has no path
DefaultShotAt ==
    {n \in CallsAt({"screenshot"}) : ~Has(trace[LastDoBefore(n)].action, "path")}

\* the default names are zero-padded to three digits, and those of
\* different indices differ
ShotNamesPaddedAndDistinct ==
    /\ ShotName(0) = << "shot_", "0", "0", "0", ".png" >>
    /\ ShotName(1) = << "shot_", "0", "0", "1", ".png" >>
    /\ ShotName(12) = << "shot_", "0", "1", "2", ".png" >>
    /\ ShotName(345) = << "shot_", "3", "4", "5", ".png" >>
    /\ \A a \in 0..30 : \A b \in 0..30 : ShotName(a) = ShotName(b) => a = b

\* C25: a screenshot action without path writes to shot_ followed by its
\* index in the whole list, zero-padded to three digits, and .png, the
\* index counting the records of every kind; so two screenshot actions
\* without path of one run never write to the same file, and the name does
\* not depend on the actions before it.
C25_DefaultNameIsIndex ==
    /\ ShotNamesPaddedAndDistinct
    /\ \A n \in DefaultShotAt :
          LET d == trace[LastDoBefore(n)]
          IN /\ d.action = actions[d.i + 1]
             /\ d.kind = "screenshot"
             /\ trace[n].call.path = << "shot_", "0", "0", Digit[d.i + 1], ".png" >>
    /\ \A n \in DefaultShotAt : \A m \in DefaultShotAt :
          trace[n].call.path = trace[m].call.path => n = m

\* an unknown record, then a screenshot without path: the capture went to
\* shot_001.png
C25_Witness ==
    /\ pc = "done"
    /\ Len(actions) = 2
    /\ IsUnknown(actions[1])
    /\ actions[2] = [action |-> "screenshot"]
    /\ shots = << [path |-> << "shot_", "0", "0", "1", ".png" >>, full_page |-> TRUE] >>

-----------------------------------------------------------------------------
(* C26 *)

LaunchOps == {"chromium.launch", "firefox.launch"}

\* the launches that returned a browser
Launched == {n \in CallsAt(LaunchOps) : ~trace[n].raised}

\* C26: chromium is launched first and firefox only right after the
\* chromium launch raised; at most one launch returns a browser; when both
\* raise, the run ends with RuntimeError, launch_errors naming chromium and
\* firefox in that order, and no other call has been made; and every other
\* call of a run comes after the one launch that returned.
C26_LaunchFallback ==
    /\ Count("chromium.launch") <= 1
    /\ Count("firefox.launch") <= 1
    /\ Cardinality(Launched) <= 1
    /\ \A n \in CallsAt({"firefox.launch"}) :
          n > 1 /\ trace[n - 1] = Raised(Op("chromium.launch"))
    /\ Before(CallsAt({"chromium.launch"}), CallsAt({"firefox.launch"}))
    /\ (InTrace(Raised(Op("chromium.launch"))) /\ pc # "launch_firefox") =>
          Count("firefox.launch") = 1
    /\ InTrace(Raised(Op("firefox.launch"))) =>
          /\ pc = "raised"
          /\ error = << "RuntimeError", "launch_firefox" >>
          /\ launch_errors = << "chromium", "firefox" >>
          /\ browser = None /\ engine_used = None /\ context = None
          /\ playwright = "stopped"
          /\ \A n \in 1..Len(trace) : IsCall(trace[n]) => trace[n].call.op \in LaunchOps
    /\ \A n \in 1..Len(trace) :
          (IsDo(trace[n]) \/ (IsCall(trace[n]) /\ trace[n].call.op \notin LaunchOps)) =>
              /\ browser # None /\ browser = engine_used
              /\ \E m \in Launched : m < n /\ trace[m].call.op = browser \o ".launch"
    /\ launch_errors = [k \in 1..Len(launch_errors) |->
                           IF k = 1 THEN "chromium" ELSE "firefox"]
    /\ Len(launch_errors) = Cardinality(CallsAt(LaunchOps) \ Launched)

\* both launches raised: the run ended before any context was created
C26_Witness ==
    /\ InTrace(Raised(Op("chromium.launch")))
    /\ InTrace(Raised(Op("firefox.launch")))
    /\ pc = "raised"
    /\ Len(actions) = 2
    /\ context = None

-----------------------------------------------------------------------------
(* C27 *)

\* a turn on a record that has no "action" key
C27_Turn ==
    (InTurn /\ ~Has(CurrentAction, "action")) =>
        /\ trace' = trace \o << DoLine(i, None, CurrentAction), UnknownLine(None) >>
        /\ i' = i + 1
        /\ pc' = "replay"
        /\ error' = NoError
        /\ UNCHANGED <<value, scroll, shots, context, browserClosed, playwright>>

\* C27: a turn on a record without an "action" key reads the kind None,
\* prints the do line and "unknown action: None", makes no call, raises
\* nothing and goes on to the next index, although the record carries a
\* selector; a run over such records only never ends by an exception of
\* replay.
C27_NoKindIsUnknown ==
    /\ [][C27_Turn]_vars
    /\ []((\A k \in 1..Len(actions) : ~Has(actions[k], "action")) =>
             (~RaisedInReplay /\ ActionCalls = << >>))

\* a record without "action" was replayed, then a click: the click was made
\* and the run ended normally
C27_Witness ==
    /\ pc = "done"
    /\ Len(actions) = 2
    /\ ~Has(actions[1], "action")
    /\ Kind(actions[2]) = "click"
    /\ InTrace(UnknownLine(None))
    /\ Len(ActionCalls) = 1

-----------------------------------------------------------------------------
(* C28 *)

\* a turn on a scroll action that has no target
C28_Turn ==
    (InTurn /\ Kind(CurrentAction) = "scroll" /\ ~Has(CurrentAction, "target")) =>
        LET x == Get(CurrentAction, "x", 0)
            y == Get(CurrentAction, "y", 0)
        IN /\ Len(Appended) = 2
           /\ Appended[1] = DoLineOf(i)
           /\ IsCall(Appended[2])
           /\ Appended[2].call = [op |-> "evaluate_scrollBy", x |-> x, y |-> y]
           /\ ~Has(Appended[2].call, "selector")
           /\ scroll'.element = scroll.element
           /\ IF Appended[2].raised
              THEN scroll' = scroll /\ pc' = "raised"
              ELSE /\ scroll'.viewport = <<scroll.viewport[1] + x, scroll.viewport[2] + y>>
                   /\ pc' = "replay"
                   /\ i' = i + 1
                   /\ error' = NoError

\* C28: a turn on a scroll action without target is a window scroll: one
\* call, window.scrollBy(x, y) evaluated in the page, which moves the
\* viewport by (x, y); no selector is resolved, no element moves, and the
\* missing key raises nothing.
C28_NoTargetIsWindow ==
    /\ [][C28_Turn]_vars
    /\ [](error # NoError /\ error[1] = "KeyError" =>
             Kind(actions[i + 1]) \in {"click", "type"})

\* two scroll actions without target were replayed: the viewport moved by
\* (0, 1600) and no element moved
C28_Witness ==
    /\ pc = "done"
    /\ Len(actions) = 2
    /\ \A k \in 1..2 : Kind(actions[k]) = "scroll" /\ ~Has(actions[k], "target")
    /\ scroll.viewport = <<0, 1600>>
    /\ scroll.element = InitialScroll.element

====
